---- MODULE Spec2Model ----
(***************************************************************************)
(* PULP DSP library: RMS of an 8-bit fixed point vector.                   *)
(*   plp_rms_q8_parallel  (glue code: alloc, fork, reduction)              *)
(*   plp_rms_q8p_xpulpv2  (per-core worker: slice, kernel call, barrier)   *)
(*   plp_rms_q8s_rv32im   (single-core kernel)                             *)
(* Undefined behaviour of the C code (division by zero, reads past the     *)
(* source vector, accesses through a null results buffer) is modelled as a *)
(* nondeterministic choice between a trap and a garbage value, and is      *)
(* recorded in the history variable faults.                                *)
(***************************************************************************)
EXTENDS Integers, Sequences, FiniteSets, TLC

\* ------------------------------------------------------------------ bounds
MaxBlockSize == 5        \* longest source vector of a parallel call
NumCores == 4            \* cores of the cluster (largest nPE)
HeapBufs == 1            \* results buffers the cluster scratch heap can hold
MaxKLen == 4             \* longest vector given to the single-core kernel
MaxConjSamples == 2      \* most complex samples given to the conjugate kernel

Samples == {-3, 12}                  \* sample values of parallel calls
FracBitsSet == {0, 2, 31}            \* fracBits values of parallel calls
KSamples == {-128, -3, 12, 127}      \* sample values of kernel calls
KFracBitsSet == 0 .. 31               \* fracBits values of kernel calls
CSamples == {-128, -127, 0, 5, 127}   \* sample values of conjugate calls
PriorVals == {0, 85}                 \* content of *pRes before a call
Garbage == {-1, 0}                   \* what an undefined int8 result may be

ARCHI_FC_CID == "FC"
CLUSTER_CID == "CL"
NULL == "NULL"
Uninit == "uninit"

\* -------------------------------------------------------- C integer types
INT32_MAX == 2147483647
INT8_MAX == 127
INT8_MIN == -128

\* a + b in a 32-bit signed accumulator (two's complement wrap-around)
AddInt32(a, b) ==
  IF b > 0 /\ a > INT32_MAX - b
  THEN (a - INT32_MAX - 1) + (b - INT32_MAX - 1)
  ELSE IF b < 0 /\ a < (-INT32_MAX - 1) - b
  THEN (a + INT32_MAX + 1) + (b + INT32_MAX + 1)
  ELSE a + b

\* narrowing to int8_t keeps the low 8 bits
ToInt8(x) ==
  LET m == x % 256 IN IF m >= 128 THEN m - 256 ELSE m

\* signed C division, b > 0: the quotient is truncated toward zero
CDiv(a, b) == IF a >= 0 THEN a \div b ELSE -((-a) \div b)

\* low 8 bits of (uint32_t) a / b, b > 0: a negative a is first converted to
\* a + 2^32 = ((a + 2^31) + INT32_MAX) + 1
UDivLow8(a, b) ==
  IF a >= 0 THEN (a \div b) % 256
  ELSE LET h == a + INT32_MAX + 1
       IN (((h \div b) % 256) + ((INT32_MAX \div b) % 256)
           + (((h % b) + (INT32_MAX % b) + 1) \div b)) % 256

RECURSIVE Pow2(_)
Pow2(n) == IF n = 0 THEN 1 ELSE 2 * Pow2(n - 1)

\* x >> n on a non-negative 32-bit int, 0 <= n <= 31
Shr(x, n) == IF n = 31 THEN 0 ELSE x \div Pow2(n)

\* --------------------------------------------------- single-core kernel
\* one loop iteration: accu += ((temp1 * temp1) >> fracBits)
AccuStepNoShift(accu, temp1, fracBits) == AddInt32(accu, temp1 * temp1)

AccuStep(accu, temp1, fracBits) == AddInt32(accu, Shr(temp1 * temp1, fracBits))

\* *pRes = accu / blockSize: blockSize is uint32_t, so accu is converted to
\* uint32_t and the division is unsigned; the quotient is narrowed to int8_t
KernelStoreSaturate(accu, blockSize) ==
  IF accu \div blockSize > 127 THEN 127 ELSE accu \div blockSize

KernelStore(accu, blockSize) == ToInt8(UDivLow8(accu, blockSize))

RECURSIVE KernelLoop(_, _, _, _)
KernelLoop(pSrc, i, fracBits, accu) ==
  IF i > Len(pSrc) THEN accu
  ELSE KernelLoop(pSrc, i + 1, fracBits, AccuStep(accu, pSrc[i], fracBits))

\* the kernel the worker calls, on a slice of blockSize >= 1 elements
plp_rms_q8s_xpulpv2(pSrc, blockSize, fracBits) ==
  KernelStore(KernelLoop(pSrc, 1, fracBits, 0), blockSize)

\* ------------------------------------------------------------------ state
VARIABLES
  arg,            \* arguments of the current call: pSrc, blockSize, fracBits, nPE
  clusterId,      \* rt_cluster_id() of the caller
  pRes,           \* content of the caller's output location *pRes
  resultsBuffer,  \* the global pointer: "unset", "pRes", "heap" or NULL
  mem,            \* content of the buffer resultsBuffer points to (heap or null)
  heapLive,       \* results buffers allocated from the scratch heap, never freed
  S,              \* the task descriptor plp_rms_instance_q8
  team,           \* number of cores rt_team_fork started
  pc,             \* per core: "run", "barrier", "done", "trap"
  pcD,            \* dispatcher: "idle", "fork", "reduce", "returned"
  forked,         \* history: rt_team_fork calls of the current call
  pResWrites,     \* history: who stored to *pRes during the current call
  faults,         \* history: <<core, kind>> of undefined behaviour in this call
  pre,            \* history: *pRes, heapLive, resultsBuffer at entry of the current call
  lastRes,        \* history: <<result>> of the previous call if it had the same inputs
  slotWrites,     \* history: <<slot, core>> of the workers' stores in this call
  slotReads,      \* history: slots of the results buffer the dispatcher loaded
  kSrc, kFracBits, kI, kAccu, kRes, kPc,  \* single-core kernel call
  uI, uPos, uAccu, uRes, uPc,             \* the same call, unrolled build
  cSrc, cDst, cBlkCnt, cSign, cPc         \* complex conjugate call

pvars == <<arg, clusterId, pRes, resultsBuffer, mem, heapLive, S, team, pc, pcD,
           forked, pResWrites, faults, pre, lastRes, slotWrites, slotReads>>
kvars == <<kSrc, kFracBits, kI, kAccu, kRes, kPc, uI, uPos, uAccu, uRes, uPc>>
cvars == <<cSrc, cDst, cBlkCnt, cSign, cPc>>
vars == <<arg, clusterId, pRes, resultsBuffer, mem, heapLive, S, team, pc, pcD,
          forked, pResWrites, faults, pre, lastRes, slotWrites, slotReads,
          kSrc, kFracBits, kI, kAccu, kRes, kPc, uI, uPos, uAccu, uRes, uPc,
          cSrc, cDst, cBlkCnt, cSign, cPc>>

None == "none"
NoTask == [pSrc |-> <<>>, blockSize |-> 0, fracBits |-> 0, pRes |-> "unset", nPE |-> 0]

\* source vectors of the parallel calls: every length up to MaxBlockSize,
\* k samples of one value followed by samples of another
SrcVectors ==
  {[i \in 1 .. n |-> IF i <= k THEN a ELSE b] :
     n \in 0 .. MaxBlockSize, k \in 0 .. MaxBlockSize, a \in Samples, b \in Samples}

KernelIdle ==
  /\ kSrc = <<>> /\ kFracBits = 0 /\ kI = 0 /\ kAccu = 0 /\ kRes = None
  /\ kPc = "idle"
  /\ uI = 0 /\ uPos = 0 /\ uAccu = 0 /\ uRes = None /\ uPc = "idle"

ConjIdle ==
  /\ cSrc = <<>> /\ cDst = <<>> /\ cBlkCnt = 0 /\ cSign = 1 /\ cPc = "idle"

ParallelIdle ==
  /\ arg = [pSrc |-> <<>>, blockSize |-> 0, fracBits |-> 0, nPE |-> 0]
  /\ clusterId = CLUSTER_CID
  /\ pRes = 0
  /\ resultsBuffer = "unset"
  /\ mem = <<>>
  /\ heapLive = 0
  /\ S = NoTask
  /\ team = 0
  /\ pc = <<>>
  /\ pcD = "idle"
  /\ forked = 0
  /\ pResWrites = <<>>
  /\ faults = {}
  /\ pre = [pRes |-> 0, heapLive |-> 0, resultsBuffer |-> "unset"]
  /\ lastRes = <<>>
  /\ slotWrites = {}
  /\ slotReads = {}

Init == ParallelIdle /\ KernelIdle /\ ConjIdle

\* ------------------------------------------------------ per-core worker
\* uint32_t blockSizeP = ((S->blockSize + S->nPE - 1) / S->nPE), nPE >= 1
blockSizeP(T) == (T.blockSize + T.nPE - 1) \div T.nPE

\* if it is the last core, use remainder of blocksize
blockSizeCRemainderByCores(T, core) ==
  IF core = T.nPE - 1 THEN T.blockSize % T.nPE ELSE blockSizeP(T)

blockSizeC(T, core) ==
  IF core = T.nPE - 1 /\ T.blockSize % T.nPE # 0
  THEN T.blockSize % blockSizeP(T)
  ELSE blockSizeP(T)

\* int8_t *pSrc = S->pSrc + (rt_core_id() * blockSizeP)
SliceOffset(T, core) == core * blockSizeP(T)

\* source indices (0-based) the kernel reads for this core
SliceIndices(T, core) ==
  {SliceOffset(T, core) + k : k \in 0 .. (blockSizeC(T, core) - 1)}

OutOfBounds(T, core) == {j \in SliceIndices(T, core) : j >= T.blockSize}

\* the slice as the kernel sees it: elements past the vector are whatever
\* the memory behind it holds (g)
SliceValues(T, core, g) ==
  [k \in 1 .. blockSizeC(T, core) |->
     LET j == SliceOffset(T, core) + k - 1
     IN IF j < T.blockSize THEN T.pSrc[j + 1] ELSE g[j]]

\* what one run of the worker body can produce before the store to its slot:
\* a value, the undefined behaviour on the way, or a trap
WorkerOutcomes(T, core) ==
  IF T.nPE = 0
  THEN [val : Garbage, ub : {{"divZero"}}, trap : BOOLEAN]
  ELSE IF blockSizeC(T, core) = 0
  THEN [val : Garbage, ub : {{"divZero"}}, trap : BOOLEAN]
  ELSE IF OutOfBounds(T, core) # {}
  THEN {[val |-> plp_rms_q8s_xpulpv2(SliceValues(T, core, g),
                                     blockSizeC(T, core), T.fracBits),
         ub |-> {"oobRead"}, trap |-> FALSE] :
           g \in [OutOfBounds(T, core) -> Samples]}
  ELSE {[val |-> plp_rms_q8s_xpulpv2(SliceValues(T, core, <<>>),
                                     blockSizeC(T, core), T.fracBits),
         ub |-> {}, trap |-> FALSE]}

\* int8_t *pRes = S->pRes + rt_core_id(): slot the worker stores to
SlotOfCoreZero(core) == 0

SlotOf(core) == core

Tag(core, kinds) == {<<core, k>> : k \in kinds}

\* plp_rms_q8p_xpulpv2 on core `core`, up to its arrival at rt_team_barrier
Worker(core) ==
  /\ pcD = "fork"
  /\ core \in DOMAIN pc
  /\ pc[core] = "run"
  /\ \E o \in WorkerOutcomes(S, core) :
       IF o.trap
       THEN /\ pc' = [pc EXCEPT ![core] = "trap"]
            /\ faults' = faults \cup Tag(core, o.ub)
            /\ UNCHANGED <<pRes, mem, pResWrites>>
       ELSE
         CASE S.pRes = "pRes" ->
                IF SlotOf(core) = 0
                THEN /\ pRes' = o.val
                     /\ pResWrites' = Append(pResWrites, core)
                     /\ faults' = faults \cup Tag(core, o.ub)
                     /\ pc' = [pc EXCEPT ![core] = "barrier"]
                     /\ UNCHANGED mem
                ELSE /\ faults' = faults \cup Tag(core, o.ub \cup {"oobWrite"})
                     /\ pc' = [pc EXCEPT ![core] = "barrier"]
                     /\ UNCHANGED <<pRes, mem, pResWrites>>
           [] S.pRes = "heap" ->
                /\ mem' = [mem EXCEPT ![SlotOf(core)] = o.val]
                /\ faults' = faults \cup Tag(core, o.ub)
                /\ pc' = [pc EXCEPT ![core] = "barrier"]
                /\ UNCHANGED <<pRes, pResWrites>>
           [] S.pRes = NULL ->
                \E t \in BOOLEAN :
                  /\ faults' = faults \cup Tag(core, o.ub \cup {"nullWrite"})
                  /\ IF t
                     THEN /\ pc' = [pc EXCEPT ![core] = "trap"]
                          /\ UNCHANGED mem
                     ELSE /\ pc' = [pc EXCEPT ![core] = "barrier"]
                          /\ mem' = [mem EXCEPT ![SlotOf(core)] = o.val]
                  /\ UNCHANGED <<pRes, pResWrites>>
  /\ slotWrites' = IF pc'[core] = "barrier"
                   THEN slotWrites \cup {<<SlotOf(core), core>>}
                   ELSE slotWrites
  /\ UNCHANGED <<arg, clusterId, resultsBuffer, heapLive, S, team, pcD, forked,
                 pre, lastRes, slotReads>>
  /\ UNCHANGED <<kvars, cvars>>

\* rt_team_barrier: released when every core of the team has arrived
BarrierOpenAny(p) == \E c \in DOMAIN p : p[c] = "barrier"

BarrierOpen(p) == \A c \in DOMAIN p : p[c] = "barrier"

Barrier ==
  /\ pcD = "fork"
  /\ BarrierOpen(pc)
  /\ pc' = [c \in DOMAIN pc |-> IF pc[c] = "barrier" THEN "done" ELSE pc[c]]
  /\ pcD' = "reduce"
  /\ UNCHANGED <<arg, clusterId, pRes, resultsBuffer, mem, heapLive, S, team,
                 forked, pResWrites, faults, pre, lastRes, slotWrites,
                 slotReads>>
  /\ UNCHANGED <<kvars, cvars>>

\* ------------------------------------------------- parallel dispatcher
\* if (rt_cluster_id() == ARCHI_FC_CID) { printf(...); return; }
OnFabricControllerNever(cid) == FALSE

OnFabricController(cid) == cid = ARCHI_FC_CID

\* rt_alloc(RT_ALLOC_CL_DATA, sizeof(int8_t) * nPE): NULL when the scratch
\* heap is exhausted; the glue code never frees what it allocated
rt_alloc(live) == IF live < HeapBufs THEN "heap" ELSE NULL

\* if (nPE > 1) resultsBuffer = rt_alloc(...); else resultsBuffer = pRes;
NeedsBufferFromOne(nPE) == nPE >= 1

NeedsBuffer(nPE) == nPE > 1

\* plp_rms_instance_q8 S = { .pSrc, .blockSize, .fracBits, .pRes, .nPE }
plp_rms_instance_q8NoCount(src, blockSize, fracBits, buf, nPE) ==
  [pSrc |-> src, blockSize |-> blockSize, fracBits |-> fracBits, pRes |-> buf,
   nPE |-> 0]

plp_rms_instance_q8(src, blockSize, fracBits, buf, nPE) ==
  [pSrc |-> src, blockSize |-> blockSize, fracBits |-> fracBits, pRes |-> buf,
   nPE |-> nPE]

\* rt_team_fork(nPE, ...): nPE cores enter the parallel section; with 0 the
\* runtime either starts none or falls back to the whole cluster
TeamSizes(nPE) == IF nPE = 0 THEN {0, NumCores} ELSE {nPE}

\* plp_rms_q8_parallel from its entry to the point where rt_team_fork has
\* started the team (or to the early return on the fabric controller)
Call(src, fracBits, nPE, cid, prior, t) ==
  /\ pcD \in {"idle", "returned"}
  /\ arg' = [pSrc |-> src, blockSize |-> Len(src), fracBits |-> fracBits,
             nPE |-> nPE]
  /\ clusterId' = cid
  /\ pRes' = prior
  /\ pre' = [pRes |-> prior, heapLive |-> heapLive,
             resultsBuffer |-> resultsBuffer]
  /\ pResWrites' = <<>>
  /\ faults' = {}
  /\ slotWrites' = {}
  /\ slotReads' = {}
  /\ lastRes' = IF /\ pcD = "returned"
                   /\ cid = CLUSTER_CID
                   /\ clusterId = CLUSTER_CID
                   /\ arg = arg'
                THEN <<pRes>> ELSE <<>>
  /\ IF OnFabricController(cid)
     THEN /\ pcD' = "returned"
          /\ forked' = 0
          /\ team' = 0
          /\ pc' = <<>>
          /\ S' = NoTask
          /\ mem' = <<>>
          /\ UNCHANGED <<resultsBuffer, heapLive>>
     ELSE /\ resultsBuffer' = IF NeedsBuffer(nPE) THEN rt_alloc(heapLive)
                              ELSE "pRes"
          /\ heapLive' = IF NeedsBuffer(nPE) /\ rt_alloc(heapLive) # NULL
                         THEN heapLive + 1 ELSE heapLive
          /\ mem' = IF NeedsBuffer(nPE) THEN [i \in 0 .. (nPE - 1) |-> Uninit]
                    ELSE <<>>
          /\ S' = plp_rms_instance_q8(src, Len(src), fracBits, resultsBuffer',
                                      nPE)
          /\ forked' = 1
          /\ team' = t
          /\ pc' = [c \in 0 .. (t - 1) |-> "run"]
          /\ pcD' = "fork"
  /\ UNCHANGED <<kvars, cvars>>

\* for (i = 0; i < nPE; ++i) accu += *(resultsBuffer + i);
RECURSIVE SumBuffer(_, _, _, _)
SumBuffer(buf, i, nPE, accu) ==
  IF i >= nPE THEN accu
  ELSE SumBuffer(buf, i + 1, nPE, AddInt32(accu, buf[i]))

\* *pRes = accu / nPE: nPE is promoted to int, the division is signed
ReduceFloor(buf, nPE) == ToInt8(SumBuffer(buf, 0, nPE, 0) \div nPE)

Reduce(buf, nPE) == ToInt8(CDiv(SumBuffer(buf, 0, nPE, 0), nPE))

\* plp_rms_q8_parallel after rt_team_fork returned: collect and store
Collect ==
  /\ pcD = "reduce"
  /\ pRes' = IF S.nPE > 1 THEN Reduce(mem, S.nPE) ELSE pRes
  /\ pResWrites' = Append(pResWrites, "dispatcher")
  /\ slotReads' = IF S.nPE > 1 THEN 0 .. (S.nPE - 1) ELSE {0}
  /\ pcD' = "returned"
  /\ UNCHANGED <<arg, clusterId, resultsBuffer, mem, heapLive, S, team, pc,
                 forked, faults, pre, lastRes, slotWrites>>
  /\ UNCHANGED <<kvars, cvars>>

\* return to the caller: the frame holding S is popped, the team is dissolved
\* and the histories of the call are dropped; the allocated buffer stays
Return ==
  /\ pcD = "returned"
  /\ pcD' = "idle"
  /\ arg' = [pSrc |-> <<>>, blockSize |-> 0, fracBits |-> 0, nPE |-> 0]
  /\ clusterId' = CLUSTER_CID
  /\ pRes' = 0
  /\ mem' = <<>>
  /\ S' = NoTask
  /\ team' = 0
  /\ pc' = <<>>
  /\ forked' = 0
  /\ pResWrites' = <<>>
  /\ faults' = {}
  /\ pre' = [pRes |-> 0, heapLive |-> heapLive, resultsBuffer |-> resultsBuffer]
  /\ lastRes' = <<>>
  /\ slotWrites' = {}
  /\ slotReads' = {}
  /\ UNCHANGED <<resultsBuffer, heapLive>>
  /\ UNCHANGED <<kvars, cvars>>

Next ==
  \/ /\ pcD = "idle"
     /\ \E src \in SrcVectors, fracBits \in FracBitsSet, nPE \in 0 .. NumCores,
           cid \in {ARCHI_FC_CID, CLUSTER_CID}, prior \in PriorVals,
           t \in 0 .. NumCores :
          /\ t \in TeamSizes(nPE)
          /\ Call(src, fracBits, nPE, cid, prior, t)
  \/ /\ pcD = "returned"
     /\ \E prior \in PriorVals, t \in 0 .. NumCores :
          /\ t \in TeamSizes(arg.nPE)
          /\ Call(arg.pSrc, arg.fracBits, arg.nPE, clusterId, prior, t)
  \/ \E core \in 0 .. (NumCores - 1) : Worker(core)
  \/ Barrier
  \/ Collect
  \/ Return

Spec == Init /\ [][Next]_vars

\* the cluster cores run independently and the dispatcher core is not
\* preempted: a worker that can step, a barrier that can release and a
\* dispatcher that can collect eventually do
SpecFair ==
  /\ Init
  /\ [][Next]_vars
  /\ \A core \in 0 .. (NumCores - 1) : WF_vars(Worker(core))
  /\ WF_vars(Barrier)
  /\ WF_vars(Collect)

\* ------------------------------------- single-core kernel, step by step
\* vectors of the kernel calls: every sequence of up to MaxKLen samples
RECURSIVE SeqsUpTo(_, _)
SeqsUpTo(V, n) ==
  IF n = 0 THEN {<<>>}
  ELSE LET R == SeqsUpTo(V, n - 1)
       IN R \cup {Append(q, v) : q \in {r \in R : Len(r) = n - 1}, v \in V}

KVectors == SeqsUpTo(KSamples, MaxKLen)

\* plp_rms_q8s_rv32im entered with (pSrc, blockSize = Len(pSrc), fracBits)
InitRms ==
  /\ ParallelIdle
  /\ ConjIdle
  /\ kSrc \in KVectors
  /\ kFracBits \in KFracBitsSet
  /\ kI = 0
  /\ kAccu = 0
  /\ kRes = None
  /\ kPc = "loop"
  /\ uI = 0
  /\ uPos = 0
  /\ uAccu = 0
  /\ uRes = None
  /\ uPc = "loop"

\* for (int i = 0; i < blockSize; i++) { temp1 = *pSrc++; accu += ... }
KernelIter ==
  /\ kPc = "loop"
  /\ kI < Len(kSrc)
  /\ kAccu' = AccuStep(kAccu, kSrc[kI + 1], kFracBits)
  /\ kI' = kI + 1
  /\ UNCHANGED <<kSrc, kFracBits, kRes, kPc>>
  /\ UNCHANGED <<uI, uPos, uAccu, uRes, uPc>>
  /\ UNCHANGED <<pvars, cvars>>

\* *pRes = accu / blockSize; a zero blockSize divides by zero
KernelFinish ==
  /\ kPc = "loop"
  /\ kI >= Len(kSrc)
  /\ IF Len(kSrc) = 0
     THEN \E t \in BOOLEAN :
            IF t THEN kPc' = "trap" /\ kRes' = kRes
            ELSE kPc' = "done" /\ kRes' \in Garbage
     ELSE /\ kRes' = KernelStore(kAccu, Len(kSrc))
          /\ kPc' = "done"
  /\ UNCHANGED <<kSrc, kFracBits, kI, kAccu>>
  /\ UNCHANGED <<uI, uPos, uAccu, uRes, uPc>>
  /\ UNCHANGED <<pvars, cvars>>

\* the PLP_MATH_LOOPUNROLL build of the same function, run on the same
\* arguments once the plain build has finished
\* for (int i = 0; i < (blockSize >> 1); i++): number of passes
UnrollPairs(blockSize) == blockSize \div 2

\* if (blockSize % 2 == 1)
HasOddTailNever(blockSize) == FALSE

HasOddTail(blockSize) == blockSize % 2 = 1

\* temp1 = (*pSrc++); temp2 = (*pSrc++); accu += ...; accu += ...;
UnrollIter ==
  /\ kPc # "loop"
  /\ uPc = "loop"
  /\ uI < UnrollPairs(Len(kSrc))
  /\ uAccu' = AccuStep(AccuStep(uAccu, kSrc[uPos + 1], kFracBits),
                       kSrc[uPos + 2], kFracBits)
  /\ uPos' = uPos + 2
  /\ uI' = uI + 1
  /\ UNCHANGED <<kSrc, kFracBits, kI, kAccu, kRes, kPc, uRes, uPc>>
  /\ UNCHANGED <<pvars, cvars>>

\* if (blockSize % 2 == 1) { temp1 = (*pSrc++); accu += ...; }
UnrollTail ==
  /\ kPc # "loop"
  /\ uPc = "loop"
  /\ uI >= UnrollPairs(Len(kSrc))
  /\ IF HasOddTail(Len(kSrc))
     THEN /\ uAccu' = AccuStep(uAccu, kSrc[uPos + 1], kFracBits)
          /\ uPos' = uPos + 1
     ELSE UNCHANGED <<uAccu, uPos>>
  /\ uPc' = "store"
  /\ UNCHANGED <<kSrc, kFracBits, kI, kAccu, kRes, kPc, uI, uRes>>
  /\ UNCHANGED <<pvars, cvars>>

\* *pRes = accu / blockSize, as in the plain build
UnrollFinish ==
  /\ uPc = "store"
  /\ IF Len(kSrc) = 0
     THEN \E t \in BOOLEAN :
            IF t THEN uPc' = "trap" /\ uRes' = uRes
            ELSE uPc' = "done" /\ uRes' \in Garbage
     ELSE /\ uRes' = KernelStore(uAccu, Len(kSrc))
          /\ uPc' = "done"
  /\ UNCHANGED <<kSrc, kFracBits, kI, kAccu, kRes, kPc, uI, uPos, uAccu>>
  /\ UNCHANGED <<pvars, cvars>>

NextRms ==
  KernelIter \/ KernelFinish \/ UnrollIter \/ UnrollTail \/ UnrollFinish

SpecRms == InitRms /\ [][NextRms]_vars

\* --------------------------------------------- complex conjugate kernel
\* interleaved (real, imag) vectors of up to MaxConjSamples complex samples
CVectors == {v \in SeqsUpTo(CSamples, 2 * MaxConjSamples) : Len(v) % 2 = 0}

\* plp_cmplx_conj_i8_rv32im entered with (pSrc, pDst, numSamples = Len(pSrc)/2):
\* blkCnt = 2 * numSamples; sign = 1; pDst is the sequence of elements stored
InitConj ==
  /\ ParallelIdle
  /\ KernelIdle
  /\ cSrc \in CVectors
  /\ cDst = <<>>
  /\ cBlkCnt = Len(cSrc)
  /\ cSign = 1
  /\ cPc = "loop"

\* int8_t in = *pSrc++; *pDst++ = (in == INT8_MIN) ? INT8_MAX : -in;
ConjImagWrap(in) == ToInt8(-in)

ConjImag(in) == IF in = INT8_MIN THEN INT8_MAX ELSE -in

\* one pass of while (blkCnt > 0U) { ... sign *= -1; blkCnt--; }
ConjStep ==
  /\ cPc = "loop"
  /\ cBlkCnt > 0
  /\ LET in == cSrc[Len(cDst) + 1]
     IN cDst' = Append(cDst, IF cSign = 1 THEN in ELSE ConjImag(in))
  /\ cSign' = ToInt8(cSign * (-1))
  /\ cBlkCnt' = cBlkCnt - 1
  /\ UNCHANGED <<cSrc, cPc>>
  /\ UNCHANGED <<pvars, kvars>>

\* the loop condition fails: the function returns
ConjExit ==
  /\ cPc = "loop"
  /\ cBlkCnt = 0
  /\ cPc' = "done"
  /\ UNCHANGED <<cSrc, cDst, cBlkCnt, cSign>>
  /\ UNCHANGED <<pvars, kvars>>

NextConj == ConjStep \/ ConjExit

SpecConj == InitConj /\ [][NextConj]_vars

\* ---------------------------------------------------------------- claims
InCluster == pcD # "idle" /\ clusterId = CLUSTER_CID

Returned == pcD = "returned" /\ clusterId = CLUSTER_CID

Kinds(k) == {f \in faults : f[2] = k}

\* C1: a cluster call with nPE == 1 and blockSize >= 1 leaves in *pRes exactly
\* what the single-core kernel gives on the whole vector: the only worker's
\* slice starts at offset 0 and has blockSize elements, and the dispatcher
\* stores the worker's value back without dividing it again.
C1_SingleCoreEquivalence ==
  (Returned /\ arg.nPE = 1 /\ arg.blockSize >= 1) =>
    /\ pRes = plp_rms_q8s_xpulpv2(arg.pSrc, arg.blockSize, arg.fracBits)
    /\ SliceOffset(S, 0) = 0
    /\ blockSizeC(S, 0) = arg.blockSize
    /\ faults = {}

C1_Witness ==
  /\ Returned
  /\ arg.nPE = 1
  /\ arg.blockSize = MaxBlockSize
  /\ arg.fracBits = 2
  /\ pRes # pre.pRes
  /\ pRes > 2

\* C2: a call from the fabric controller returns without computing anything:
\* no store to *pRes (it keeps its content), no buffer allocated, the global
\* results pointer untouched, and no team forked.
C2_ControllerNoOp ==
  (pcD = "returned" /\ clusterId = ARCHI_FC_CID) =>
    /\ pRes = pre.pRes
    /\ pResWrites = <<>>
    /\ heapLive = pre.heapLive
    /\ resultsBuffer = pre.resultsBuffer
    /\ forked = 0
    /\ team = 0

C2_Witness ==
  /\ pcD = "returned"
  /\ clusterId = ARCHI_FC_CID
  /\ arg.nPE > 1
  /\ arg.blockSize >= arg.nPE
  /\ pre.heapLive < HeapBufs
  /\ pRes = 85

\* C3 (as claimed): when nPE > 1 and the allocation of the results buffer
\* fails, the call stops before dispatch: no team is forked, no worker stores
\* through the null handle and *pRes is not written. Stated for calls whose
\* other arguments are valid (blockSize >= nPE), where nothing else can fail.
C3_AllocationFailureReported ==
  (InCluster /\ arg.nPE > 1 /\ arg.blockSize >= arg.nPE /\ S.pRes = NULL) =>
    /\ forked = 0
    /\ Kinds("nullWrite") = {}
    /\ pResWrites = <<>>

\* C4 (as claimed): a cluster call with nPE == 0 or blockSize == 0 is rejected
\* before any computation: no team is forked, no division by zero happens in
\* a worker or in the kernel, and *pRes is not written.
C4_InvalidArgumentRejected ==
  (InCluster /\ (arg.nPE = 0 \/ arg.blockSize = 0)) =>
    /\ forked = 0
    /\ Kinds("divZero") = {}
    /\ pResWrites = <<>>

\* C5 (as claimed): with blockSize >= 1 and 1 <= nPE <= blockSize every worker
\* reads only source indices below blockSize:
\* coreId * blockSizeP + sliceLength(coreId) <= blockSize for every core.
C5_SlicesInsideVector ==
  (InCluster /\ arg.blockSize >= 1 /\ 1 <= arg.nPE /\ arg.nPE <= arg.blockSize) =>
    /\ \A core \in DOMAIN pc :
         pc[core] # "run" =>
           SliceOffset(S, core) + blockSizeC(S, core) <= arg.blockSize
    /\ Kinds("oobRead") = {}

\* C6 (as claimed): with nPE > blockSize >= 1 every worker whose coreId is
\* >= blockSize has an empty slice, and the call runs without a fault: no
\* read at an index >= blockSize and no division by a zero slice length.
C6_SurplusCoresHarmless ==
  (InCluster /\ arg.blockSize >= 1 /\ arg.nPE > arg.blockSize) =>
    /\ \A core \in DOMAIN pc :
         (pc[core] # "run" /\ core >= arg.blockSize) => blockSizeC(S, core) = 0
    /\ Kinds("oobRead") = {}
    /\ Kinds("divZero") = {}

\* sum of the slots 0 .. n-1 of a results buffer, as an unbounded integer
RECURSIVE SlotSum(_, _)
SlotSum(buf, n) == IF n = 0 THEN 0 ELSE buf[n - 1] + SlotSum(buf, n - 1)

\* q is a / b with the fraction discarded (rounded toward zero), b > 0
IsTruncatedQuotient(q, a, b) ==
  IF a >= 0 THEN q * b <= a /\ a < q * b + b
  ELSE q * b >= a /\ a > q * b - b

\* C7: for nPE > 1 the value stored to *pRes is the sum of the nPE slots of
\* the results buffer divided by nPE, rounded toward zero also when the sum is
\* negative, and slot i holds the kernel's result on the slice of core i; for
\* nPE == 1 *pRes is the value the only worker stored, not divided again.
C7_ReductionIsTruncatedMean ==
  /\ (Returned /\ arg.nPE > 1) =>
       /\ IsTruncatedQuotient(pRes, SlotSum(mem, arg.nPE), arg.nPE)
       /\ faults = {} =>
            \A i \in 0 .. (arg.nPE - 1) :
              mem[i] = plp_rms_q8s_xpulpv2(SliceValues(S, i, <<>>),
                                           blockSizeC(S, i), arg.fracBits)
  /\ (Returned /\ arg.nPE = 1 /\ faults = {}) =>
       /\ pResWrites = <<0, "dispatcher">>
       /\ pRes = plp_rms_q8s_xpulpv2(SliceValues(S, 0, <<>>),
                                     blockSizeC(S, 0), arg.fracBits)

\* a reduction over a negative, not evenly divisible sum
C7_Witness ==
  /\ Returned
  /\ arg.nPE > 1
  /\ faults = {}
  /\ SlotSum(mem, arg.nPE) < 0
  /\ SlotSum(mem, arg.nPE) % arg.nPE # 0
  /\ pRes * arg.nPE > SlotSum(mem, arg.nPE)

\* C10 (as claimed): the parallel result is a function of its inputs: a call
\* that repeats the previous call's src, blockSize, fracBits and nPE (with
\* 1 <= nPE <= blockSize) returns the value the previous call returned.
C10_RepeatedCallSameResult ==
  (Returned /\ lastRes # <<>> /\ 1 <= arg.nPE /\ arg.nPE <= arg.blockSize) =>
    pRes = lastRes[1]

\* sum of x^2 >> fracBits over a vector, as an unbounded integer; the shift
\* is done by halving fracBits times
RECURSIVE Halve(_, _)
Halve(x, n) == IF n = 0 THEN x ELSE Halve(x \div 2, n - 1)

RECURSIVE SumShiftedSquares(_, _)
SumShiftedSquares(v, fracBits) ==
  IF v = <<>> THEN 0
  ELSE Halve(Head(v) * Head(v), fracBits) + SumShiftedSquares(Tail(v), fracBits)

\* C8: for blockSize >= 1 and fracBits in 0..31 the kernel stores
\* accu / blockSize, rounded toward zero and narrowed to int8 (modulo 2^8),
\* where accu is the sum of (sample^2 >> fracBits) over the whole vector.
C8_KernelResult ==
  (kPc = "done" /\ Len(kSrc) >= 1) =>
    /\ kAccu = SumShiftedSquares(kSrc, kFracBits)
    /\ kI = Len(kSrc)
    /\ \E q \in 0 .. kAccu :
         /\ IsTruncatedQuotient(q, kAccu, Len(kSrc))
         /\ kRes \in -128 .. 127
         /\ (q - kRes) % 256 = 0

\* a kernel call whose quotient does not fit 8 bits and whose shift matters
C8_Witness ==
  /\ kPc = "done"
  /\ Len(kSrc) = MaxKLen
  /\ kFracBits = 7
  /\ kAccu \div Len(kSrc) > 127
  /\ kRes < 0

RECURSIVE SumSquares(_)
SumSquares(v) == IF v = <<>> THEN 0 ELSE Head(v) * Head(v) + SumSquares(Tail(v))

\* C9 (as claimed): with fracBits == 0 the kernel returns the mean of squares
\* (sum of sample^2) / blockSize itself.
C9_UnscaledMeanOfSquares ==
  (kPc = "done" /\ Len(kSrc) >= 1 /\ kFracBits = 0) =>
    kRes = SumSquares(kSrc) \div Len(kSrc)

\* C9 (amended): with fracBits == 0 the kernel returns the mean of squares
\* (sum of sample^2) / blockSize narrowed to int8, i.e. its low 8 bits read
\* as a signed value; it is the mean itself whenever the mean is <= 127.
C9_UnscaledMeanOfSquaresNarrowed ==
  (kPc = "done" /\ Len(kSrc) >= 1 /\ kFracBits = 0) =>
    /\ kRes = ToInt8(SumSquares(kSrc) \div Len(kSrc))
    /\ SumSquares(kSrc) \div Len(kSrc) <= 127 =>
         kRes = SumSquares(kSrc) \div Len(kSrc)

C9_Witness ==
  /\ kPc = "done"
  /\ Len(kSrc) >= 2
  /\ kFracBits = 0
  /\ SumSquares(kSrc) \div Len(kSrc) > 127
  /\ kRes # SumSquares(kSrc) \div Len(kSrc)

\* C11 (as claimed): during a cluster call *pRes is stored to exactly once,
\* by the dispatcher after the reduction, and by no worker, for nPE == 1 as
\* for nPE > 1. Stated for calls with valid arguments (1 <= nPE <= blockSize).
C11_OutputWrittenOnceByDispatcher ==
  (InCluster /\ arg.nPE >= 1 /\ arg.blockSize >= arg.nPE) =>
    /\ pcD \in {"fork", "reduce"} => Len(pResWrites) = 0
    /\ pcD = "returned" => Len(pResWrites) = 1

\* C11 (amended): for nPE > 1 *pRes is stored to exactly once, by the
\* dispatcher after the barrier, and by no worker; for nPE == 1 the results
\* buffer is *pRes itself: the worker on core 0 stores its result there before
\* the barrier and the dispatcher stores the same value once more.
C11_OutputWrites ==
  /\ (InCluster /\ arg.nPE > 1) =>
       pResWrites = IF pcD = "returned" THEN <<"dispatcher">> ELSE <<>>
  /\ (InCluster /\ arg.nPE = 1) =>
       /\ pcD = "returned" => pResWrites = <<0, "dispatcher">>
       /\ pcD = "reduce" => pResWrites = <<0>>
       /\ pcD = "fork" =>
            pResWrites = IF pc[0] = "barrier" THEN <<0>> ELSE <<>>

C11_Witness ==
  /\ Returned
  /\ arg.nPE = 1
  /\ arg.blockSize >= 1
  /\ pResWrites = <<0, "dispatcher">>
  /\ pRes # pre.pRes

C13_NoReadBeforeWrite ==
  InCluster =>
    /\ \A i \in 0 .. (arg.nPE - 1) :
         i \in slotReads => \E w \in slotWrites : w[1] = i
    /\ (pcD \in {"reduce", "returned"} \/ \E c \in DOMAIN pc : pc[c] = "done") =>
         \A c \in 0 .. (arg.nPE - 1) :
           /\ c \in DOMAIN pc
           /\ pc[c] = "done"
           /\ \E w \in slotWrites : w[2] = c

C13_Witness ==
  /\ Returned /\ arg.nPE = 3 /\ resultsBuffer = "heap"
  /\ slotReads = {0, 1, 2}
  /\ slotWrites = {<<0, 0>>, <<1, 1>>, <<2, 2>>}
  /\ \A c \in 0 .. 2 : pc[c] = "done"

\* C14: in the parallel phase a slot i in 0 .. nPE-1 is stored to by worker i
\* only, no slot is stored to by two workers, every slot has been stored to
\* when the parallel phase is over, and the slots are loaded by nobody before
\* the dispatcher has resumed (each worker runs its body once, so a worker
\* stores once).
C14_SlotsWrittenOnceByOwner ==
  InCluster =>
    /\ \A w \in slotWrites : w[1] \in 0 .. (arg.nPE - 1) => w[2] = w[1]
    /\ \A w1 \in slotWrites : \A w2 \in slotWrites : w1[1] = w2[1] => w1 = w2
    /\ Cardinality(slotWrites) =
         Cardinality({c \in DOMAIN pc : pc[c] \in {"barrier", "done"}})
    /\ pcD \in {"reduce", "returned"} =>
         \A i \in 0 .. (arg.nPE - 1) : <<i, i>> \in slotWrites
    /\ pcD \in {"fork", "reduce"} => slotReads = {}

C14_Witness ==
  /\ InCluster /\ pcD = "reduce" /\ arg.nPE = NumCores
  /\ arg.blockSize = NumCores
  /\ resultsBuffer = "heap"
  /\ slotWrites = {<<c, c>> : c \in 0 .. (NumCores - 1)}
  /\ slotReads = {}

\* C15 (as claimed): with blockSize >= 1 and 1 <= nPE <= blockSize the slices
\* the nPE workers have been given partition the vector: each slice starts
\* where the one before it ends, the last one ends at blockSize, and every
\* index below blockSize lies in the slice of exactly one core.
C15_SlicesPartitionVector ==
  (/\ InCluster /\ arg.blockSize >= 1 /\ 1 <= arg.nPE /\ arg.nPE <= arg.blockSize
   /\ \A core \in DOMAIN pc : pc[core] # "run") =>
    /\ \A core \in 1 .. (S.nPE - 1) :
         SliceOffset(S, core) =
           SliceOffset(S, core - 1) + blockSizeC(S, core - 1)
    /\ SliceOffset(S, S.nPE - 1) + blockSizeC(S, S.nPE - 1) = S.blockSize
    /\ \A j \in 0 .. (S.blockSize - 1) :
         Cardinality({core \in DOMAIN pc : j \in SliceIndices(S, core)}) = 1

\* C16 (as claimed): with blockSize >= 1 and 1 <= nPE <= blockSize every worker
\* that has called the kernel passed it a slice length >= 1, and no worker has
\* divided by zero.
C16_SliceLengthPositive ==
  (InCluster /\ arg.blockSize >= 1 /\ 1 <= arg.nPE /\ arg.nPE <= arg.blockSize) =>
    /\ \A core \in DOMAIN pc : pc[core] # "run" => blockSizeC(S, core) >= 1
    /\ \A core \in DOMAIN pc : <<core, "divZero">> \notin faults

\* C17 (as claimed): when a call has returned, the results buffer it allocated
\* has been released: no allocation from the scratch heap is outstanding
\* between calls. Stated for calls with valid arguments (1 < nPE <= blockSize).
C17_BufferReleasedOnReturn ==
  (Returned /\ arg.nPE > 1 /\ arg.blockSize >= arg.nPE) => heapLive = 0

\* C18 (as claimed): a call dispatched from a cluster context with
\* blockSize >= 1 and 1 <= nPE <= blockSize runs to completion; in particular
\* no worker is stuck or faulted before the barrier. A worker that has
\* trapped takes no further step, so the barrier it never reaches stays
\* closed and the dispatcher never resumes.
C18_NoWorkerStuckBeforeBarrier ==
  (/\ InCluster /\ pcD = "fork"
   /\ arg.blockSize >= 1 /\ 1 <= arg.nPE /\ arg.nPE <= arg.blockSize) =>
    /\ \A core \in DOMAIN pc : pc[core] \in {"run", "barrier"}
    /\ (ENABLED Barrier \/ \E core \in DOMAIN pc : ENABLED Worker(core))

\* C19: from the fork until the reduction is complete the task descriptor
\* holds the five values the dispatcher was called with, and no step of a
\* worker, of the barrier or of the dispatcher changes the descriptor, the
\* source vector, the buffer pointer or the heap; a worker's step stores to
\* its own slot S->pRes + coreId and to nothing else, and *pRes changes in
\* the parallel phase only as slot 0 of a buffer that is *pRes itself.
C19_DescriptorAndSourceFrame ==
  [][(clusterId = CLUSTER_CID /\ pcD \in {"fork", "reduce"}) =>
       /\ S = [pSrc |-> arg.pSrc, blockSize |-> arg.blockSize,
               fracBits |-> arg.fracBits, pRes |-> resultsBuffer,
               nPE |-> arg.nPE]
       /\ S' = S
       /\ arg' = arg
       /\ resultsBuffer' = resultsBuffer
       /\ heapLive' = heapLive
       /\ \A w \in slotWrites' \ slotWrites :
            /\ w[1] = w[2]
            /\ pc[w[2]] = "run"
            /\ pc'[w[2]] = "barrier"
       /\ \A i \in DOMAIN mem :
            (\A w \in slotWrites' \ slotWrites : w[1] # i) =>
              (i \in DOMAIN mem' /\ mem'[i] = mem[i])
       /\ (pcD = "fork" /\ pRes' # pRes) =>
            /\ S.pRes = "pRes"
            /\ <<0, 0>> \in slotWrites' \ slotWrites
    ]_vars

C19_Witness ==
  /\ InCluster /\ pcD = "reduce"
  /\ S = [pSrc |-> <<12, 12, -3>>, blockSize |-> 3, fracBits |-> 2,
          pRes |-> "heap", nPE |-> 2]
  /\ slotWrites = {<<0, 0>>, <<1, 1>>}
  /\ mem = <<>> @@ (0 :> 36) @@ (1 :> 2)

\* C20: on the same vector of blockSize >= 1 elements and the same fracBits
\* the unrolled build and the plain build end with the same accumulator and
\* store the same result, and each has read exactly blockSize elements.
C20_UnrolledSameAsPlain ==
  (Len(kSrc) >= 1 /\ kPc = "done") =>
    /\ kI = Len(kSrc)
    /\ uPc \in {"store", "done"} => (uAccu = kAccu /\ uPos = Len(kSrc))
    /\ uPc = "done" => uRes = kRes
    /\ uPos <= Len(kSrc)

C20_Witness ==
  /\ kPc = "done" /\ uPc = "done"
  /\ kSrc = <<127, -128, 12>> /\ kFracBits = 2
  /\ uI = 1 /\ uPos = 3
  /\ uRes = kRes /\ kRes # 0

====
